---------------------------- MODULE Spec2Model ----------------------------
(***************************************************************************)
(* RingWeights_core.c: the ring-artifact weights of a data residual.       *)
(*                                                                         *)
(* RingWeights_main runs one or more per-axis "median" passes over the     *)
(* residual (each pass an OpenMP parallel for over the outer loop index)   *)
(* and combines their outputs elementwise into the weights buffer.         *)
(*                                                                         *)
(* Numbers.  Every buffer entry is a single-precision value.  An entry n   *)
(* of the model stands for the float n/2, so that the product 0.5f*(p+d)   *)
(* of the combination formulas is exact: the residual holds whole numbers  *)
(* (even entries), and so does every filter output.                        *)
(***************************************************************************)
EXTENDS Integers, Sequences, FiniteSets, TLC

VARIABLES
    residual,                    \* float *residual (the caller's, read only)
    weights,                     \* float *weights  (the caller's, output)
    weights_temp,                \* calloc'ed at line 50
    weights_temp2,               \* calloc'ed at line 83 (3D path only)
    window_halfsize_detectors,
    window_halfsize_angles,
    window_halfsize_projections,
    anglesDim,
    detectorsDim,
    slices,
    pc,                          \* position of the thread that runs RingWeights_main
    nthreads,                    \* size of the OpenMP team
    running,                     \* inside a parallel region
    done,                        \* done[w]: filter calls worker w has completed in this region
    stray,                       \* stray[w]: the word in front of worker w's Values_Vec, once read
    result,                      \* what the call handed back to its caller
    \* ---- history variables (observers, never read by the program) ----
    weights0,                    \* the weights buffer as the caller passed it
    wlog,                        \* wlog[c]: the workers that wrote cell c of the region's destination
    rlog,                        \* <<worker, buffer, cell>> of every read made in the region
    vec,                         \* length of Values_Vec and the indices used on it, last filter call
    fired,                       \* the 3D branches whose condition held
    ncomb,                       \* combination loops executed
    touched                      \* a cell of residual or weights was read or written

vars == <<residual, weights, weights_temp, weights_temp2,
          window_halfsize_detectors, window_halfsize_angles,
          window_halfsize_projections, anglesDim, detectorsDim, slices,
          pc, nthreads, running, done, stray, result,
          weights0, wlog, rlog, vec, fired, ncomb, touched>>

(***************************************************************************)
(* Bounds of the model.                                                    *)
(***************************************************************************)
MaxDim == 3
MaxDetectors == 5
MaxCells == 8
MaxHalf == 2
MaxThreads == 2

\* the float v as a buffer entry
Float(v) == v + v

\* the value of a residual cell that stands out of its neighbours (float 10)
SpikeVals == {Float(10)}

\* the slopes of the residual's ramp (0: a constant volume)
Slopes == {0, 1}

\* what the caller's weights buffer may hold on entry (float 7)
WeightsFill == {Float(7)}

\* what a read outside an allocated block may yield (floats 0 and 99)
Garbage == {Float(0), Float(99)}

NCells == anglesDim * detectorsDim * slices

Cells == 0 .. (NCells - 1)

Min(a, b) == IF a < b THEN a ELSE b

(***************************************************************************)
(* The per-pixel filters.                                                  *)
(***************************************************************************)

\* index = i*detectorsDim+j
Index2D(j, i) == i * detectorsDim + j

\* index = detectorsDim*anglesDim*k + i*detectorsDim+j
Index3D(j, i, k) == detectorsDim * anglesDim * k + i * detectorsDim + j

\* the index of the true median of an odd window
Midval_centre(full_window) == full_window \div 2

\* midval = (int)(0.5f*full_window) - 1; full_window is positive, so the cast floors
Midval(full_window) == (full_window \div 2) - 1

\* swap(&Values_Vec[y], &Values_Vec[y+1]); Values_Vec[y] is v[y+1] here
swap(v, y) == [v EXCEPT ![y + 1] = v[y + 2], ![y + 2] = v[y + 1]]

\* for (y = 0; y < counter-x-1; y++) if (Values_Vec[y] > Values_Vec[y+1]) swap(...)
RECURSIVE SortInner(_, _, _)
SortInner(v, x, y) ==
    IF y < Len(v) - x - 1
    THEN SortInner(IF v[y + 1] > v[y + 2] THEN swap(v, y) ELSE v, x, y + 1)
    ELSE v

\* for (x = 0; x < counter-1; x++) { inner loop }
RECURSIVE SortOuter(_, _)
SortOuter(v, x) ==
    IF x < Len(v) - 1 THEN SortOuter(SortInner(v, x, 0), x + 1) ELSE v

\* the sorting of the vector array; counter = Len(v) when the gathering is over
SortVec(v) == SortOuter(v, 0)

\* Values_Vec[midval]; outside the calloc'ed block the read yields g
ReadVec(v, midval, g) ==
    IF midval >= 0 /\ midval < Len(v) THEN v[midval + 1] ELSE g

\* The cell of the source that tap c of the gathering loop reads.
\* RingWeights_det2D: k = -h..h, j1 = j + k
Taps_det2D(h, j, i) ==
    [c \in 1 .. (2 * h + 1) |->
        LET j1 == j + (c - 1 - h) IN
        IF (j1 >= 0) /\ (j1 < detectorsDim)
        THEN i * detectorsDim + j1 ELSE Index2D(j, i)]

\* RingWeights_angles2D: k = -h..h, i1 = i + k
Taps_angles2D(h, j, i) ==
    [c \in 1 .. (2 * h + 1) |->
        LET i1 == i + (c - 1 - h) IN
        IF (i1 >= 0) /\ (i1 < anglesDim)
        THEN i1 * detectorsDim + j ELSE Index2D(j, i)]

\* RingWeights_proj3D: z = -h..h, k1 = z + k
Taps_proj3D(h, j, i, k) ==
    [c \in 1 .. (2 * h + 1) |->
        LET k1 == (c - 1 - h) + k IN
        IF (k1 >= 0) /\ (k1 < slices)
        THEN detectorsDim * anglesDim * k1 + i * detectorsDim + j
        ELSE Index3D(j, i, k)]

\* RingWeights_det3D: m = -h..h, j1 = j + m
Taps_det3D(h, j, i, k) ==
    [c \in 1 .. (2 * h + 1) |->
        LET j1 == j + (c - 1 - h) IN
        IF (j1 >= 0) /\ (j1 < detectorsDim)
        THEN detectorsDim * anglesDim * k + i * detectorsDim + j1
        ELSE Index3D(j, i, k)]

\* RingWeights_angles3D: m = -h..h, i1 = i + m
Taps_angles3D(h, j, i, k) ==
    [c \in 1 .. (2 * h + 1) |->
        LET i1 == i + (c - 1 - h) IN
        IF (i1 >= 0) /\ (i1 < anglesDim)
        THEN detectorsDim * anglesDim * k + i1 * detectorsDim + j
        ELSE Index3D(j, i, k)]

\* Values_Vec[counter] = src[tap], counter = 0 .. 2h
Gather(src, taps) == [c \in DOMAIN taps |-> src[taps[c]]]

\* every index used on Values_Vec by one filter call: the gathering writes
\* counter = 0..2h, the sort compares y and y+1, the selection reads midval
VecIndices(h, full) ==
    (0 .. (2 * h))
    \cup UNION {{y, y + 1} : y \in 0 .. (2 * h - 1)}
    \cup {Midval(full)}

\* The value each filter stores at dest[index]. full is the caller's
\* <axis>_full_window, the length of the calloc'ed Values_Vec.
RingWeights_det2D(src, h, full, j, i, g) ==
    ReadVec(SortVec(Gather(src, Taps_det2D(h, j, i))), Midval(full), g)

RingWeights_angles2D(src, h, full, j, i, g) ==
    ReadVec(SortVec(Gather(src, Taps_angles2D(h, j, i))), Midval(full), g)

RingWeights_proj3D(src, h, full, j, i, k, g) ==
    ReadVec(SortVec(Gather(src, Taps_proj3D(h, j, i, k))), Midval(full), g)

RingWeights_det3D(src, h, full, j, i, k, g) ==
    ReadVec(SortVec(Gather(src, Taps_det3D(h, j, i, k))), Midval(full), g)

RingWeights_angles3D(src, h, full, j, i, k, g) ==
    ReadVec(SortVec(Gather(src, Taps_angles3D(h, j, i, k))), Midval(full), g)

(***************************************************************************)
(* RingWeights_main.  A position of pc is the source line of the statement *)
(* about to run: an if, a parallel for, a combination loop, the return.    *)
(***************************************************************************)

\* detectors_full_window = (int)(2*window_halfsize_detectors+1), and the like
detectors_full_window == 2 * window_halfsize_detectors + 1

angles_full_window == 2 * window_halfsize_angles + 1

projections_full_window == 2 * window_halfsize_projections + 1

\* calloc (anglesDim*detectorsDim*slices, sizeof(float)): a zeroed block
Calloc == [c \in Cells |-> 0]

\* a block that is not allocated (before calloc, after free)
NoBlock == [c \in {} |-> 0]

\* 0.5f*x; x is a sum of two whole numbers, so the entry is even
Half(x) == x \div 2

\* the conditions of the if statements
Cond52 == slices = 1

Cond57 == window_halfsize_angles = 0

\* line 84 testing the projections' half-size for the detectors'
Cond84_projections ==
    (window_halfsize_angles = 0) /\ (window_halfsize_projections = 0)

Cond84 == (window_halfsize_angles = 0) /\ (window_halfsize_detectors = 0)

Cond94 == (window_halfsize_angles = 0) /\ (window_halfsize_projections = 0)

Cond105 ==
    /\ window_halfsize_angles # 0
    /\ window_halfsize_projections # 0
    /\ window_halfsize_detectors # 0

Cond127 ==
    /\ window_halfsize_angles # 0
    /\ window_halfsize_projections # 0
    /\ window_halfsize_detectors = 0

\* line 143 without its test of the detectors' half-size
Cond143_no_detectors ==
    /\ window_halfsize_angles # 0
    /\ window_halfsize_projections = 0

Cond143 ==
    /\ window_halfsize_angles # 0
    /\ window_halfsize_projections = 0
    /\ window_halfsize_detectors # 0

Cond158 ==
    /\ window_halfsize_angles = 0
    /\ window_halfsize_projections # 0
    /\ window_halfsize_detectors # 0

IfLabels == {"L52", "L57", "L84", "L94", "L105", "L127", "L143", "L158"}

\* the if statements of the 3D path, each guarding one combination
Branches3D == {"L84", "L94", "L105", "L127", "L143", "L158"}

Cond(l) ==
    CASE l = "L52" -> Cond52
      [] l = "L57" -> Cond57
      [] l = "L84" -> Cond84
      [] l = "L94" -> Cond94
      [] l = "L105" -> Cond105
      [] l = "L127" -> Cond127
      [] l = "L143" -> Cond143
      [] l = "L158" -> Cond158

\* where an if statement goes when its condition holds
Then(l) ==
    CASE l = "L52" -> "L57"
      [] l = "L57" -> "L59"
      [] l = "L84" -> "L87"
      [] l = "L94" -> "L97"
      [] l = "L105" -> "L107"
      [] l = "L127" -> "L129"
      [] l = "L143" -> "L145"
      [] l = "L158" -> "L160"

\* and when it does not
Else(l) ==
    CASE l = "L52" -> "L83"
      [] l = "L57" -> "L68"
      [] l = "L84" -> "L94"
      [] l = "L94" -> "L105"
      [] l = "L105" -> "L127"
      [] l = "L127" -> "L143"
      [] l = "L143" -> "L158"
      [] l = "L158" -> "L176"

\* the parallel for loops: the filter each calls, the buffer it writes, its half-size
Pass(l) ==
    CASE l \in {"L59", "L73"} ->
            [filter |-> "det2D", dest |-> IF l = "L59" THEN "weights_temp" ELSE "weights"]
      [] l = "L68" -> [filter |-> "angles2D", dest |-> "weights_temp"]
      [] l \in {"L87", "L160"} -> [filter |-> "proj3D", dest |-> "weights_temp"]
      [] l \in {"L113", "L135"} -> [filter |-> "proj3D", dest |-> "weights_temp2"]
      [] l = "L97" -> [filter |-> "det3D", dest |-> "weights_temp"]
      [] l = "L119" -> [filter |-> "det3D", dest |-> "weights"]
      [] l \in {"L151", "L166"} -> [filter |-> "det3D", dest |-> "weights_temp2"]
      [] l \in {"L107", "L129", "L145"} -> [filter |-> "angles3D", dest |-> "weights_temp"]

ParLabels ==
    {"L59", "L68", "L73", "L87", "L97", "L107", "L113", "L119",
     "L129", "L135", "L145", "L151", "L160", "L166"}

CombLabels == {"L63", "L77", "L92", "L102", "L124", "L140", "L156", "L171"}

\* the statement after a loop
After(l) ==
    CASE l = "L59" -> "L63"
      [] l = "L63" -> "L176"
      [] l = "L68" -> "L73"
      [] l = "L73" -> "L77"
      [] l = "L77" -> "L176"
      [] l = "L87" -> "L92"
      [] l = "L92" -> "L94"
      [] l = "L97" -> "L102"
      [] l = "L102" -> "L105"
      [] l = "L107" -> "L113"
      [] l = "L113" -> "L119"
      [] l = "L119" -> "L124"
      [] l = "L124" -> "L127"
      [] l = "L129" -> "L135"
      [] l = "L135" -> "L140"
      [] l = "L140" -> "L143"
      [] l = "L145" -> "L151"
      [] l = "L151" -> "L156"
      [] l = "L156" -> "L158"
      [] l = "L160" -> "L166"
      [] l = "L166" -> "L171"
      [] l = "L171" -> "L176"

\* the half-size and the full window a filter is called with
HalfOf(filter) ==
    CASE filter \in {"det2D", "det3D"} -> window_halfsize_detectors
      [] filter \in {"angles2D", "angles3D"} -> window_halfsize_angles
      [] filter = "proj3D" -> window_halfsize_projections

FullOf(filter) ==
    CASE filter \in {"det2D", "det3D"} -> detectors_full_window
      [] filter \in {"angles2D", "angles3D"} -> angles_full_window
      [] filter = "proj3D" -> projections_full_window

\* the combination loops, cell i
Comb63(i) == residual[i] - weights_temp[i]

\* line 77 with its operands exchanged
Comb77_exchanged(i) == weights[i] - weights_temp[i]

Comb77(i) == weights_temp[i] - weights[i]

Comb92(i) == residual[i] - weights_temp[i]

Comb102(i) == residual[i] - weights_temp[i]

\* line 124 without the factor 0.5f
Comb124_no_half(i) == weights_temp[i] - (weights_temp2[i] + weights[i])

Comb124(i) == weights_temp[i] - Half(weights_temp2[i] + weights[i])

Comb140(i) == weights_temp[i] - weights_temp2[i]

Comb156(i) == weights_temp[i] - weights_temp2[i]

Comb171(i) == residual[i] - Half(weights_temp[i] + weights_temp2[i])

Comb(l, i) ==
    CASE l = "L63" -> Comb63(i)
      [] l = "L77" -> Comb77(i)
      [] l = "L92" -> Comb92(i)
      [] l = "L102" -> Comb102(i)
      [] l = "L124" -> Comb124(i)
      [] l = "L140" -> Comb140(i)
      [] l = "L156" -> Comb156(i)
      [] l = "L171" -> Comb171(i)

(***************************************************************************)
(* #pragma omp parallel for: the iterations of the outer loop (i in the 2D *)
(* path, k in the 3D path) are split into one contiguous chunk per thread  *)
(* (the static schedule), and the team joins at the end of the loop.       *)
(***************************************************************************)
Workers == 0 .. (nthreads - 1)

\* the extent of the outer loop and the filter calls made per outer iteration
OuterExtent(l) == IF l \in {"L59", "L68", "L73"} THEN anglesDim ELSE slices

InnerCalls(l) ==
    IF l \in {"L59", "L68", "L73"} THEN detectorsDim ELSE anglesDim * detectorsDim

ChunkLo(w, n) == w * (n \div nthreads) + Min(w, n % nthreads)

ChunkLen(w, n) == (n \div nthreads) + (IF w < n % nthreads THEN 1 ELSE 0)

\* the filter calls worker w makes in the loop at l
Calls(w, l) == ChunkLen(w, OuterExtent(l)) * InnerCalls(l)

\* the loop indices <<j, i, k>> of worker w's call number n (from 0) in the loop at l
LoopIndex(w, l, n) ==
    IF l \in {"L59", "L68", "L73"}
    THEN <<n % detectorsDim, ChunkLo(w, anglesDim) + (n \div detectorsDim), 0>>
    ELSE <<n % detectorsDim,
           (n \div detectorsDim) % anglesDim,
           ChunkLo(w, slices) + (n \div (anglesDim * detectorsDim))>>

\* the cells of the source one call reads
TapsOf(filter, h, j, i, k) ==
    CASE filter = "det2D" -> Taps_det2D(h, j, i)
      [] filter = "angles2D" -> Taps_angles2D(h, j, i)
      [] filter = "proj3D" -> Taps_proj3D(h, j, i, k)
      [] filter = "det3D" -> Taps_det3D(h, j, i, k)
      [] filter = "angles3D" -> Taps_angles3D(h, j, i, k)

\* the value one call stores; every call of RingWeights_main passes residual as the source
CallFilter(filter, h, full, j, i, k, g) ==
    CASE filter = "det2D" -> RingWeights_det2D(residual, h, full, j, i, g)
      [] filter = "angles2D" -> RingWeights_angles2D(residual, h, full, j, i, g)
      [] filter = "proj3D" -> RingWeights_proj3D(residual, h, full, j, i, k, g)
      [] filter = "det3D" -> RingWeights_det3D(residual, h, full, j, i, k, g)
      [] filter = "angles3D" -> RingWeights_angles3D(residual, h, full, j, i, k, g)

\* the cell one call writes
IndexOf(filter, j, i, k) ==
    IF filter \in {"det2D", "angles2D"} THEN Index2D(j, i) ELSE Index3D(j, i, k)

Range(f) == {f[x] : x \in DOMAIN f}

\* What Values_Vec[midval] may yield when midval is outside the block: the word
\* there is not the program's, so any value, but the block is freed and
\* calloc'ed again by every call of a worker, so the same word through one
\* parallel for.  (A read inside the block draws nothing.)
Strays(w, full) ==
    IF Midval(full) \in 0 .. (full - 1) THEN {0}
    ELSE IF stray[w] = <<>> THEN Garbage
    ELSE {stray[w][1]}

(***************************************************************************)
(* The inputs of one call.                                                 *)
(***************************************************************************)
Shapes ==
    {s \in (0 .. MaxDim) \X (0 .. MaxDetectors) \X (0 .. MaxDim) :
        s[1] * s[2] * s[3] <= MaxCells}

\* a ramp of whole numbers from 1 (slope 0: a constant volume), with at most
\* one cell set apart
Residuals(n) ==
    {[c \in 0 .. (n - 1) |-> IF c = s THEN v ELSE Float(1 + m * c)] :
        m \in Slopes, s \in -1 .. (n - 1), v \in SpikeVals}

\* the state at the call of RingWeights_main, but for the size of the team
Inputs ==
    /\ \E s \in Shapes :
          /\ anglesDim = s[1]
          /\ detectorsDim = s[2]
          /\ slices = s[3]
          /\ residual \in Residuals(s[1] * s[2] * s[3])
          /\ \E f \in WeightsFill : weights = [c \in 0 .. (s[1] * s[2] * s[3] - 1) |-> f]
    /\ window_halfsize_detectors \in 0 .. MaxHalf
    /\ window_halfsize_angles \in 0 .. MaxHalf
    /\ window_halfsize_projections \in 0 .. MaxHalf
    /\ weights_temp = NoBlock
    /\ weights_temp2 = NoBlock
    /\ pc = "L50"
    /\ running = FALSE
    /\ result = [tag |-> "none", val |-> 0]
    /\ weights0 = weights
    /\ wlog = [c \in Cells |-> <<>>]
    /\ rlog = {}
    /\ vec = [len |-> 0, idx |-> {}]
    /\ fired = {}
    /\ ncomb = 0
    /\ touched = FALSE

\* one thread (OMP_NUM_THREADS=1): every parallel for runs in loop order
Init ==
    /\ Inputs
    /\ nthreads = 1
    /\ done = [w \in Workers |-> 0]
    /\ stray = [w \in Workers |-> <<>>]

\* a team of several threads
InitTeam ==
    /\ Inputs
    /\ nthreads \in 2 .. MaxThreads
    /\ done = [w \in Workers |-> 0]
    /\ stray = [w \in Workers |-> <<>>]

inputs == <<residual, window_halfsize_detectors, window_halfsize_angles,
            window_halfsize_projections, anglesDim, detectorsDim, slices,
            nthreads, weights0>>

history == <<wlog, rlog, vec, fired, ncomb, touched>>

\* weights_temp = (float*) calloc (anglesDim*detectorsDim*slices, sizeof(float))
Enter ==
    /\ pc = "L50"
    /\ weights_temp' = Calloc
    /\ pc' = "L52"
    /\ UNCHANGED <<inputs, history, weights, weights_temp2, running, done,
                   stray, result>>

\* weights_temp2 = (float*) calloc (anglesDim*detectorsDim*slices, sizeof(float))
Alloc2 ==
    /\ pc = "L83"
    /\ weights_temp2' = Calloc
    /\ pc' = "L84"
    /\ UNCHANGED <<inputs, history, weights, weights_temp, running, done,
                   stray, result>>

\* an if statement
Test ==
    /\ pc \in IfLabels
    /\ pc' = IF Cond(pc) THEN Then(pc) ELSE Else(pc)
    /\ fired' = IF pc \in Branches3D /\ Cond(pc) THEN fired \cup {pc} ELSE fired
    /\ UNCHANGED <<inputs, weights, weights_temp, weights_temp2, running, done,
                   stray, result, wlog, rlog, vec, ncomb, touched>>

\* the team enters a parallel for
Fork ==
    /\ pc \in ParLabels
    /\ ~running
    /\ running' = TRUE
    /\ done' = [w \in Workers |-> 0]
    /\ stray' = [w \in Workers |-> <<>>]
    /\ wlog' = [c \in Cells |-> <<>>]
    /\ rlog' = {}
    /\ UNCHANGED <<inputs, weights, weights_temp, weights_temp2, pc, result,
                   vec, fired, ncomb, touched>>

\* worker w makes its next filter call: gather, sort, dest[index] = Values_Vec[midval],
\* return *dest
WorkerStep(w) ==
    /\ running
    /\ done[w] < Calls(w, pc)
    /\ LET p == Pass(pc)
           h == HalfOf(p.filter)
           full == FullOf(p.filter)
           jik == LoopIndex(w, pc, done[w])
           index == IndexOf(p.filter, jik[1], jik[2], jik[3])
           taps == TapsOf(p.filter, h, jik[1], jik[2], jik[3])
       IN
       /\ \E g \in Strays(w, full) :
             LET v == CallFilter(p.filter, h, full, jik[1], jik[2], jik[3], g) IN
             /\ stray' = IF Midval(full) \in 0 .. (full - 1)
                          THEN stray ELSE [stray EXCEPT ![w] = <<g>>]
             /\ weights' = IF p.dest = "weights"
                           THEN [weights EXCEPT ![index] = v] ELSE weights
             /\ weights_temp' = IF p.dest = "weights_temp"
                                THEN [weights_temp EXCEPT ![index] = v] ELSE weights_temp
             /\ weights_temp2' = IF p.dest = "weights_temp2"
                                 THEN [weights_temp2 EXCEPT ![index] = v] ELSE weights_temp2
       /\ wlog' = [wlog EXCEPT ![index] = Append(@, w)]
       /\ rlog' = rlog \cup {<<w, "residual", c>> : c \in Range(taps)}
                       \cup {<<w, p.dest, 0>>}
       /\ vec' = [len |-> full, idx |-> VecIndices(h, full)]
    /\ done' = [done EXCEPT ![w] = @ + 1]
    /\ touched' = TRUE
    /\ UNCHANGED <<inputs, pc, running, result, fired, ncomb>>

\* the implicit barrier at the end of the parallel for
Join ==
    /\ running
    /\ \A w \in Workers : done[w] = Calls(w, pc)
    /\ running' = FALSE
    /\ pc' = After(pc)
    /\ UNCHANGED <<inputs, history, weights, weights_temp, weights_temp2, done,
                   stray, result>>

\* for(i=0; i<anglesDim*detectorsDim*slices; i++) weights[i] = ...
Combine ==
    /\ pc \in CombLabels
    /\ weights' = [i \in Cells |-> Comb(pc, i)]
    /\ ncomb' = ncomb + 1
    /\ touched' = (touched \/ NCells > 0)
    /\ pc' = After(pc)
    /\ UNCHANGED <<inputs, weights_temp, weights_temp2, running, done, stray,
                   result, wlog, rlog, vec, fired>>

\* free(weights_temp2); free(weights_temp); return *weights;
Return ==
    /\ pc = "L176"
    /\ \E v \in (IF NCells > 0 THEN {weights[0]} ELSE Garbage) :
          result' = [tag |-> "float", val |-> v]
    /\ weights_temp' = NoBlock
    /\ weights_temp2' = NoBlock
    /\ touched' = TRUE
    /\ pc' = "done"
    /\ UNCHANGED <<inputs, weights, running, done, stray, wlog, rlog, vec,
                   fired, ncomb>>

Next ==
    \/ Enter
    \/ Alloc2
    \/ Test
    \/ Fork
    \/ \E w \in Workers : WorkerStep(w)
    \/ Join
    \/ Combine
    \/ Return

Spec == Init /\ [][Next]_vars

SpecTeam == InitTeam /\ [][Next]_vars

(***************************************************************************)
(* The vocabulary of the properties: the per-axis medians as the design    *)
(* states them, on grid coordinates, with no use of the filters above.     *)
(*   index(angle, detector, slice) =                                       *)
(*       slice*(angleCount*detectorCount) + angle*detectorCount + detector *)
(***************************************************************************)
Coord(c, axis) ==
    CASE axis = "detector" -> c % detectorsDim
      [] axis = "angle" -> (c \div detectorsDim) % anglesDim
      [] axis = "projection" -> c \div (anglesDim * detectorsDim)

AxisLength(axis) ==
    CASE axis = "detector" -> detectorsDim
      [] axis = "angle" -> anglesDim
      [] axis = "projection" -> slices

Stride(axis) ==
    CASE axis = "detector" -> 1
      [] axis = "angle" -> detectorsDim
      [] axis = "projection" -> anglesDim * detectorsDim

\* the 2h+1 samples around cell c along the axis; a sample that falls off the
\* axis is the sample at c itself
Window(src, axis, h, c) ==
    [n \in 1 .. (2 * h + 1) |->
        LET x == Coord(c, axis) + (n - 1 - h) IN
        IF x \in 0 .. (AxisLength(axis) - 1)
        THEN src[c + (n - 1 - h) * Stride(axis)] ELSE src[c]]

\* v is the element at zero-based index k of the ascending sort of win
IsRanked(v, win, k) ==
    /\ Cardinality({n \in DOMAIN win : win[n] < v}) <= k
    /\ Cardinality({n \in DOMAIN win : win[n] <= v}) > k

\* the order statistic at sorted index h-1 (h >= 1)
AxisMedian(src, axis, h, c) ==
    CHOOSE v \in Range(Window(src, axis, h, c)) :
        IsRanked(v, Window(src, axis, h, c), h - 1)

\* the same, reading a window of one sample (h = 0) as that sample
AxisMedian0(src, axis, h, c) ==
    IF h = 0 THEN src[c] ELSE AxisMedian(src, axis, h, c)

AxisOf(filter) ==
    CASE filter \in {"det2D", "det3D"} -> "detector"
      [] filter \in {"angles2D", "angles3D"} -> "angle"
      [] filter = "proj3D" -> "projection"

\* the buffer a parallel for writes
DestBuffer(l) ==
    CASE Pass(l).dest = "weights" -> weights
      [] Pass(l).dest = "weights_temp" -> weights_temp
      [] Pass(l).dest = "weights_temp2" -> weights_temp2

Returned == pc = "done"

Is2D == slices = 1

Is3D == slices > 1

hd == window_halfsize_detectors

ha == window_halfsize_angles

hp == window_halfsize_projections

Constant(src) == \A c \in DOMAIN src : \A e \in DOMAIN src : src[c] = src[e]

(***************************************************************************)
(* C1.  2D dispatch (slices = 1), detector half-size >= 1: on return every *)
(* cell of weights is residual - DetectorMedian(residual) when the angle   *)
(* half-size is 0, and AngleMedian(residual) - DetectorMedian(residual)    *)
(* otherwise, both medians taken of the residual.                          *)
(***************************************************************************)
C1_Dispatch2D ==
    (Returned /\ Is2D /\ hd >= 1) =>
        \A c \in Cells :
            weights[c] =
                (IF ha = 0 THEN residual[c] ELSE AxisMedian(residual, "angle", ha, c))
                - AxisMedian(residual, "detector", hd, c)

\* a 2x2 sinogram filtered along both axes, where the angle median is not the
\* residual and the two medians differ
C1_Witness ==
    /\ Returned /\ Is2D /\ hd >= 1 /\ ha >= 1
    /\ anglesDim = 2 /\ detectorsDim = 2
    /\ \E c \in Cells :
          /\ AxisMedian(residual, "angle", ha, c) # residual[c]
          /\ weights[c] # 0

(***************************************************************************)
(* C2, as stated.  3D dispatch: with angle and projection half-sizes 0 the *)
(* output is residual - ProjectionMedian(residual), and with angle and     *)
(* detector half-sizes 0 it is residual - DetectorMedian(residual).  Taken *)
(* on the triples other than (0, 0, 0).                                    *)
(***************************************************************************)
C2_AsStated ==
    (Returned /\ Is3D /\ ha = 0 /\ (hp # 0 \/ hd # 0)) =>
        /\ hp = 0 =>
              \A c \in Cells :
                  weights[c] = residual[c] - AxisMedian0(residual, "projection", hp, c)
        /\ hd = 0 =>
              \A c \in Cells :
                  weights[c] = residual[c] - AxisMedian0(residual, "detector", hd, c)

(***************************************************************************)
(* C2, amended.  3D dispatch: with angle and detector half-sizes 0 and     *)
(* projection half-size >= 1 every cell of the output is                   *)
(* residual - ProjectionMedian(residual); with angle and projection        *)
(* half-sizes 0 and detector half-size >= 1 it is                          *)
(* residual - DetectorMedian(residual).                                    *)
(***************************************************************************)
C2_SingleAxis3D ==
    (Returned /\ Is3D /\ ha = 0) =>
        /\ (hd = 0 /\ hp >= 1) =>
              \A c \in Cells :
                  weights[c] = residual[c] - AxisMedian(residual, "projection", hp, c)
        /\ (hp = 0 /\ hd >= 1) =>
              \A c \in Cells :
                  weights[c] = residual[c] - AxisMedian(residual, "detector", hd, c)

\* the projection-only branch has run on a volume with two slices and left a
\* weight that is not 0
C2_Witness ==
    /\ Returned /\ Is3D /\ ha = 0 /\ hd = 0 /\ hp >= 1
    /\ fired = {"L84"}
    /\ \E c \in Cells : weights[c] # 0

(***************************************************************************)
(* C3.  3D dispatch, several axes, with a, p, d the angle, projection and  *)
(* detector medians of the residual: all half-sizes nonzero gives          *)
(* a - 0.5*(p + d); angle and projection gives a - p; angle and detector   *)
(* gives a - d; projection and detector gives residual - 0.5*(p + d); in   *)
(* every cell.                                                             *)
(***************************************************************************)
C3_MultiAxis3D ==
    (Returned /\ Is3D) =>
        \A c \in Cells :
            /\ (ha # 0 /\ hp # 0 /\ hd # 0) =>
                  weights[c] + weights[c] =
                      2 * AxisMedian(residual, "angle", ha, c)
                      - (AxisMedian(residual, "projection", hp, c)
                         + AxisMedian(residual, "detector", hd, c))
            /\ (ha # 0 /\ hp # 0 /\ hd = 0) =>
                  weights[c] = AxisMedian(residual, "angle", ha, c)
                               - AxisMedian(residual, "projection", hp, c)
            /\ (ha # 0 /\ hp = 0 /\ hd # 0) =>
                  weights[c] = AxisMedian(residual, "angle", ha, c)
                               - AxisMedian(residual, "detector", hd, c)
            /\ (ha = 0 /\ hp # 0 /\ hd # 0) =>
                  weights[c] + weights[c] =
                      2 * residual[c]
                      - (AxisMedian(residual, "projection", hp, c)
                         + AxisMedian(residual, "detector", hd, c))

\* the three-way branch on a 2x2x2 volume, with a cell whose three medians
\* are pairwise different
C3_Witness ==
    /\ Returned /\ Is3D /\ ha # 0 /\ hp # 0 /\ hd # 0
    /\ anglesDim = 2 /\ detectorsDim = 2 /\ slices = 2
    /\ \E c \in Cells :
          /\ AxisMedian(residual, "angle", ha, c) # AxisMedian(residual, "projection", hp, c)
          /\ AxisMedian(residual, "angle", ha, c) # AxisMedian(residual, "detector", hd, c)
          /\ AxisMedian(residual, "projection", hp, c) # AxisMedian(residual, "detector", hd, c)

(***************************************************************************)
(* C4.  A filter called with half-size h >= 1 stores, at the cell it is    *)
(* called for, the element at zero-based index h-1 of the ascending sort   *)
(* of the 2h+1 samples at offsets -h..h along its axis, a sample off the   *)
(* axis being replaced by the sample at the cell itself.                   *)
(***************************************************************************)
C4_OrderStatistic ==
    (running /\ HalfOf(Pass(pc).filter) >= 1) =>
        \A c \in Cells :
            wlog[c] # <<>> =>
                DestBuffer(pc)[c] =
                    AxisMedian(residual, AxisOf(Pass(pc).filter), HalfOf(Pass(pc).filter), c)

\* the row [1, 2, 3, 4, 5] filtered along the detectors with h = 2: the window
\* of the middle column is {1, 2, 3, 4, 5} and the column holds 2
C4_Witness ==
    /\ running /\ pc = "L59" /\ hd = 2
    /\ anglesDim = 1 /\ detectorsDim = 5
    /\ residual = [c \in 0 .. 4 |-> Float(c + 1)]
    /\ wlog[2] # <<>>
    /\ weights_temp[2] = Float(2)

\* the row [10, 1, 1] filtered along the detectors with h = 1: column 0 holds 1
C4_Example ==
    /\ running /\ pc = "L59" /\ hd = 1
    /\ anglesDim = 1 /\ detectorsDim = 3
    /\ residual = [c \in 0 .. 2 |-> IF c = 0 THEN Float(10) ELSE Float(1)]
    /\ wlog[0] # <<>>
    /\ weights_temp[0] = Float(1)

(***************************************************************************)
(* C5.  In the 3D path, when all three half-sizes are 0, every cell of     *)
(* weights holds after the call the value it held before the call.         *)
(***************************************************************************)
C5_Untouched ==
    (Returned /\ Is3D /\ ha = 0 /\ hp = 0 /\ hd = 0) => weights = weights0

C7_Rejects ==
    (anglesDim <= 0 \/ detectorsDim <= 0 \/ slices <= 0) =>
        /\ ~touched
        /\ Returned => result.tag = "InvalidDimension"

(***************************************************************************)
(* C8.  A constant residual gives weights 0 in every cell for the          *)
(* angle-only, detector-only, projection-only and three-way patterns, 2D   *)
(* and 3D, whatever weights held before the call.                          *)
(***************************************************************************)
C8_ConstantZero ==
    (Returned /\ NCells > 0 /\ Constant(residual)) =>
        /\ (Is2D /\ ((ha # 0 /\ hd = 0) \/ (ha = 0 /\ hd # 0))) =>
              \A c \in Cells : weights[c] = 0
        /\ (Is3D /\ \/ (ha # 0 /\ hp = 0 /\ hd = 0)
                    \/ (ha = 0 /\ hp = 0 /\ hd # 0)
                    \/ (ha = 0 /\ hp # 0 /\ hd = 0)
                    \/ (ha # 0 /\ hp # 0 /\ hd # 0)) =>
              \A c \in Cells : weights[c] = 0

(***************************************************************************)
(* C9.  In a parallel for run by several workers each destination cell is  *)
(* written once, by one worker, and no worker reads a cell that another    *)
(* worker writes in the same loop; the loop's destination is combined only *)
(* when every worker has finished.  Taken on the loops whose filter has a  *)
(* half-size >= 1.                                                         *)
(***************************************************************************)
C9_WorkersDisjoint ==
    /\ (running /\ HalfOf(Pass(pc).filter) >= 1) =>
          /\ \A c \in Cells : Len(wlog[c]) <= 1
          /\ (\A w \in Workers : done[w] = Calls(w, pc)) =>
                \A c \in Cells : Len(wlog[c]) = 1
          /\ \A r \in rlog : \A c \in Cells :
                (r[2] = Pass(pc).dest /\ r[3] = c) =>
                    \A x \in Range(wlog[c]) : x = r[1]
    /\ pc \in CombLabels => ~running

\* what is left of C9 once the read of *dest that ends every filter call is
\* set aside: the cells written once each, and the source never written
C9_WritesDisjoint ==
    running =>
        /\ \A c \in Cells : Len(wlog[c]) <= 1
        /\ (\A w \in Workers : done[w] = Calls(w, pc)) =>
              \A c \in Cells : Len(wlog[c]) = 1
        /\ Pass(pc).dest # "residual"

(***************************************************************************)
(* C10.  Every index used on Values_Vec by a filter call, the selection    *)
(* index midval among them, lies in [0, fullWindow), half-size 0 included. *)
(***************************************************************************)
C10_VecInBounds == \A x \in vec.idx : x >= 0 /\ x < vec.len

=============================================================================
